---- MODULE Spec2Model ----
(***************************************************************************)
(* Model of app.py (Scraping Playground): the URL admission check          *)
(* (is_private_ip, is_allowed_url), the /check-url handler with its        *)
(* robots.txt probe, and the /scrape handler with its rate-limit table     *)
(* app._last_request.                                                      *)
(*                                                                         *)
(* Strings are sequences of one-character strings, so that lower-casing,   *)
(* stripping and substring search are computed, not assumed.               *)
(***************************************************************************)
EXTENDS Integers, Sequences, FiniteSets, TLC

VARIABLES
    clock,          \* time.time(), in whole seconds
    last_request,   \* app._last_request: client_ip -> timestamp
    pending,        \* handlers suspended at `await request.json()`
    last,           \* what the handler that ran last did
    lastAdmit,      \* history: client -> time of its latest admitted /scrape
    admitPeers,     \* history: client -> its /scrape requests in flight then
    adm,            \* is_private_ip and is_allowed_url applied to one input
    chk,            \* check_url applied to one request
    scr,            \* scrape, and check_url, applied to one request
    att             \* scrape applied to one request after another

vars == <<clock, last_request, pending, last, lastAdmit, admitPeers,
          adm, chk, scr, att>>
serverVars == <<clock, last_request, pending, last, lastAdmit, admitPeers>>

(***************************************************************************)
(* Strings                                                                 *)
(***************************************************************************)
UpperLetters ==
    <<"A","B","C","D","E","F","G","H","I","J","K","L","M",
      "N","O","P","Q","R","S","T","U","V","W","X","Y","Z">>
LowerLetters ==
    <<"a","b","c","d","e","f","g","h","i","j","k","l","m",
      "n","o","p","q","r","s","t","u","v","w","x","y","z">>

UpperSet == { UpperLetters[i] : i \in 1..Len(UpperLetters) }

\* the lower-case letter of every upper-case one
LowerOf ==
    [c \in UpperSet |->
        LowerLetters[CHOOSE i \in 1..Len(UpperLetters) : UpperLetters[i] = c]]

\* str.lower() on one character
LowerChar(c) == IF c \in UpperSet THEN LowerOf[c] ELSE c

\* str.lower()
Lower(s) == [i \in 1..Len(s) |-> LowerChar(s[i])]

\* `pat in s` for Python strings: pat occurs in s as a contiguous run
Contains(s, pat) ==
    \E i \in 0..(Len(s) - Len(pat)) :
        \A j \in 1..Len(pat) : s[i + j] = pat[j]

s_http == <<"h","t","t","p">>
s_https == <<"h","t","t","p","s">>
s_HTTP == <<"H","t","T","p">>
s_ftp == <<"f","t","p">>
s_file == <<"f","i","l","e">>
s_empty == <<>>

h_localhost == <<"l","o","c","a","l","h","o","s","t">>
h_LOCALHOST == <<"L","o","c","a","l","H","O","S","T">>
h_loopback == <<"1","2","7",".","0",".","0",".","1">>
h_v6loopback == <<":",":","1">>
h_any == <<"0",".","0",".","0",".","0">>
h_example == <<"e","x","a","m","p","l","e",".","c","o","m">>
h_Example == <<"E","x","a","m","p","l","e",".","C","O","M">>
h_short == <<"a",".","i","o">>
h_localhostDot == <<"l","o","c","a","l","h","o","s","t",".">>

(***************************************************************************)
(* is_private_ip: ipaddress.ip_address(ip).is_private, False on ValueError *)
(* An address string is the sequence of its dot-separated numbers.         *)
(***************************************************************************)
\* ip_address() accepts four numbers 0..255; anything else is a ValueError
ValidIPv4(ip) == Len(ip) = 4 /\ \A i \in 1..4 : ip[i] \in 0..255

\* the upper and the lower 16 bits of the 32-bit address
Hi16(ip) == ip[1] * 256 + ip[2]
Lo16(ip) == ip[3] * 256 + ip[4]

\* ip in IPv4Network(net/len)
InNetwork(ip, net, len) ==
    IF len <= 16
    THEN Hi16(ip) \div 2^(16 - len) = Hi16(net) \div 2^(16 - len)
    ELSE /\ Hi16(ip) = Hi16(net)
         /\ Lo16(ip) \div 2^(32 - len) = Lo16(net) \div 2^(32 - len)

\* ip in any network of ipaddress._IPv4Constants._private_networks
InPrivateNetworks(ip) ==
    \/ InNetwork(ip, <<0, 0, 0, 0>>, 8)
    \/ InNetwork(ip, <<10, 0, 0, 0>>, 8)
    \/ InNetwork(ip, <<127, 0, 0, 0>>, 8)
    \/ InNetwork(ip, <<169, 254, 0, 0>>, 16)
    \/ InNetwork(ip, <<172, 16, 0, 0>>, 12)
    \/ InNetwork(ip, <<192, 0, 0, 0>>, 29)
    \/ InNetwork(ip, <<192, 0, 0, 170>>, 31)
    \/ InNetwork(ip, <<192, 0, 2, 0>>, 24)
    \/ InNetwork(ip, <<192, 168, 0, 0>>, 16)
    \/ InNetwork(ip, <<198, 18, 0, 0>>, 15)
    \/ InNetwork(ip, <<198, 51, 100, 0>>, 24)
    \/ InNetwork(ip, <<203, 0, 113, 0>>, 24)
    \/ InNetwork(ip, <<240, 0, 0, 0>>, 4)
    \/ InNetwork(ip, <<255, 255, 255, 255>>, 32)

\* a plausible slip: only the three RFC1918 blocks and loopback are tested
is_private_ip_rfc1918(ip) ==
    IF ValidIPv4(ip)
    THEN \/ InNetwork(ip, <<10,0,0,0>>, 8)
         \/ InNetwork(ip, <<172,16,0,0>>, 12)
         \/ InNetwork(ip, <<192,168,0,0>>, 16)
         \/ InNetwork(ip, <<127,0,0,0>>, 8)
    ELSE FALSE

is_private_ip(ip) ==
    IF ValidIPv4(ip)
    THEN InPrivateNetworks(ip)
    ELSE FALSE

(***************************************************************************)
(* is_allowed_url                                                          *)
(*                                                                         *)
(* A URL string is given by the parts urlparse() splits it into, before    *)
(* any normalisation: pad (surrounding blanks), scheme, host, path, and    *)
(* malformed (urlparse raises ValueError, e.g. an unclosed "[").           *)
(* The outcome of socket.gethostbyname is an input: an IPv4 address or an  *)
(* exception.                                                              *)
(***************************************************************************)
Url(pad, scheme, host, path, malformed) ==
    [pad |-> pad, scheme |-> scheme, host |-> host, path |-> path,
     malformed |-> malformed]

EmptyStr == Url(FALSE, <<>>, <<>>, <<>>, FALSE)

\* str.strip()
Strip(u) == [u EXCEPT !.pad = FALSE]

\* `not url`
IsEmptyStr(u) ==
    /\ ~u.pad /\ ~u.malformed
    /\ u.scheme = <<>> /\ u.host = <<>> /\ u.path = <<>>

\* urlparse(url): .scheme is lower-cased; .hostname is lower-cased, and
\* None when absent (written <<>>: the code only tests `not parsed.hostname`)
urlparse(u) ==
    IF u.malformed
    THEN [raised |-> TRUE, scheme |-> <<>>, hostname |-> <<>>]
    ELSE [raised |-> FALSE, scheme |-> Lower(u.scheme), hostname |-> Lower(u.host)]

DnsOk(ip) == [ok |-> TRUE, ip |-> ip, why |-> "ok"]
DnsFail(why) == [ok |-> FALSE, ip |-> <<>>, why |-> why]
DnsFailures == { DnsFail(w) : w \in {"timeout", "nxdomain", "malformed"} }
DnsUnused == DnsFail("unused")

AllowedSchemes == { s_http, s_https }
DeniedHostnames == { h_localhost, h_loopback, h_v6loopback, h_any }

\* the outcome of a try block: a returned value, or an exception
Returns(v) == [raised |-> FALSE, value |-> v]
Raises == [raised |-> TRUE, value |-> FALSE]

\* a plausible slip: the literal hostname denylist is left out
is_allowed_url_try_nodeny(u, dns) ==
    LET parsed == urlparse(u) IN
    IF parsed.raised THEN Raises
    ELSE IF parsed.scheme \notin AllowedSchemes THEN Returns(FALSE)
    ELSE IF parsed.hostname = <<>> THEN Returns(FALSE)
    ELSE IF ~dns.ok THEN Raises
    ELSE IF is_private_ip(dns.ip) THEN Returns(FALSE)
    ELSE Returns(TRUE)

\* the statements inside `try:` of is_allowed_url
is_allowed_url_try(u, dns) ==
    LET parsed == urlparse(u) IN
    IF parsed.raised THEN Raises
    ELSE IF parsed.scheme \notin AllowedSchemes THEN Returns(FALSE)
    ELSE IF parsed.hostname = <<>> THEN Returns(FALSE)
    ELSE LET hostname == Lower(parsed.hostname) IN
         IF hostname \in DeniedHostnames THEN Returns(FALSE)
         ELSE IF ~dns.ok THEN Raises
         ELSE IF is_private_ip(dns.ip) THEN Returns(FALSE)
         ELSE Returns(TRUE)

\* a plausible slip: `except Exception: return True`
is_allowed_url_failopen(u, dns) ==
    LET r == is_allowed_url_try(u, dns) IN
    IF r.raised THEN TRUE ELSE r.value

\* try: ... except Exception: return False
is_allowed_url(u, dns) ==
    LET r == is_allowed_url_try(u, dns) IN
    IF r.raised THEN FALSE ELSE r.value

\* whether is_allowed_url gets as far as socket.gethostbyname
ReachesDns(u) ==
    LET parsed == urlparse(u) IN
    /\ ~parsed.raised
    /\ parsed.scheme \in AllowedSchemes
    /\ parsed.hostname # <<>>
    /\ Lower(parsed.hostname) \notin DeniedHostnames

(***************************************************************************)
(* Request bodies and the outcomes of outbound HTTP requests               *)
(***************************************************************************)
\* a field of the JSON object: absent, a string, or another JSON value
Field(given, isstr, str) == [given |-> given, isstr |-> isstr, str |-> str]

\* a selector string: its text and whether blanks surround it
Sel(pad, text) == [pad |-> pad, text |-> text]
EmptySel == Sel(FALSE, "")

\* the request body: not JSON at all, a JSON value that is no object, or an object
Body(shape, url, selector) == [shape |-> shape, url |-> url, selector |-> selector]

\* data = await request.json(); data.get(key, "").strip()
\* json() raises on a body that is not JSON, .get on a value that is no
\* object, .strip on a value that is no string
ReadField(body, f, default) ==
    IF body.shape # "object" THEN [raised |-> TRUE, value |-> default]
    ELSE IF ~f.given THEN [raised |-> FALSE, value |-> default]
    ELSE IF ~f.isstr THEN [raised |-> TRUE, value |-> default]
    ELSE [raised |-> FALSE, value |-> Strip(f.str)]

\* the outcome of requests.get: an exception, or a response
Http(kind, status, text, page, size) ==
    [kind |-> kind, status |-> status, text |-> text, page |-> page, size |-> size]
HttpUnused == Http("unused", 0, <<>>, <<>>, 0)
HttpTimeout == Http("timeout", 0, <<>>, <<>>, 0)
HttpError == Http("error", 0, <<>>, <<>>, 0)

\* str.rstrip('/')
RECURSIVE RStripSlash(_)
RStripSlash(s) ==
    IF s # <<>> /\ s[Len(s)] = "/" THEN RStripSlash(SubSeq(s, 1, Len(s) - 1)) ELSE s

p_robots == <<"/","r","o","b","o","t","s",".","t","x","t">>
p_root == <<"/">>
p_dir == <<"/","a","/">>

\* an outbound GET: whose timeout, and the path requested on the URL's host
Get(what, u, path) == [what |-> what, host |-> u.host, path |-> path]

(***************************************************************************)
(* /check-url                                                              *)
(***************************************************************************)
t_ua == <<"U","s","e","r","-","a","g","e","n","t",":"," ","*">>
t_dis == <<"D","i","s","a","l","l","o","w",":"," ","/">>
t_nl == <<"\n">>
t_uaLower == <<"u","s","e","r","-","a","g","e","n","t",":"," ","*">>
t_uaBot == <<"U","s","e","r","-","a","g","e","n","t",":"," ","B","o","t">>
t_disNone == <<"D","i","s","a","l","l","o","w",":">>
t_disTmp == <<"D","i","s","a","l","l","o","w",":"," ","/","t","m","p">>

ROBOTS_OK == 200

\* a plausible slip: `or` for `and`
RobotsBlocks_either(robots) ==
    /\ robots.kind = "response"
    /\ robots.status = ROBOTS_OK
    /\ (Contains(robots.text, t_ua) \/ Contains(robots.text, t_dis))

\* the try block of check_url returns the "Blocked" response
RobotsBlocks(robots) ==
    /\ robots.kind = "response"
    /\ robots.status = ROBOTS_OK
    /\ Contains(robots.text, t_ua) /\ Contains(robots.text, t_dis)

MsgEmpty == "URL is empty"
MsgNotAllowed == "Not allowed: private IP, localhost, or invalid scheme"
MsgRobots == "Blocked by robots.txt (disallows all bots)"
MsgAllowed == "Allowed to scrape (be respectful!)"
MsgUnhandled == "Internal Server Error"

\* a response of either handler; status 500 is an exception nobody caught
Resp(status, allowed, msg, data, preview) ==
    [status |-> status, allowed |-> allowed, msg |-> msg, data |-> data,
     preview |-> preview]

\* what one run of a handler did: the inputs it consumed, the outbound
\* requests it issued, its response, the rate-limit table it left, and
\* what is_allowed_url returned (FALSE if it was not called)
\* stage names the statement the handler left by
Run(stage, allowed, dns, ext, http, resp, table) ==
    [stage |-> stage, allowed |-> allowed, dns |-> dns, ext |-> ext,
     http |-> http, resp |-> resp, table |-> table]

\* a plausible slip: robots.txt is probed before is_allowed_url is asked
check_url_run_probefirst(body, allowed, dns, robots, table) ==
    LET read == ReadField(body, body.url, EmptyStr)
        url == read.value
        robots_url == Get("robots", url, RStripSlash(url.path) \o p_robots)
    IN
    IF read.raised
    THEN Run("body", FALSE, DnsUnused, HttpUnused, <<>>,
             Resp(500, FALSE, MsgUnhandled, <<>>, 0), table)
    ELSE IF IsEmptyStr(url)
    THEN Run("empty", FALSE, DnsUnused, HttpUnused, <<>>,
             Resp(200, FALSE, MsgEmpty, <<>>, 0), table)
    ELSE IF RobotsBlocks(robots)
    THEN Run("robots", allowed, dns, robots, <<robots_url>>,
             Resp(200, FALSE, MsgRobots, <<>>, 0), table)
    ELSE IF ~allowed
    THEN Run("denied", allowed, dns, robots, <<robots_url>>,
             Resp(200, FALSE, MsgNotAllowed, <<>>, 0), table)
    ELSE Run("done", allowed, dns, robots, <<robots_url>>,
             Resp(200, TRUE, MsgAllowed, <<>>, 0), table)

\* lines 48-77; allowed is what is_allowed_url(url) returns when line 54 calls
\* it, dns the outcome of its lookup (DnsUnused if it makes none)
check_url_run(body, allowed, dns, robots, table) ==
    LET read == ReadField(body, body.url, EmptyStr)
        url == read.value
        robots_url == Get("robots", url, RStripSlash(url.path) \o p_robots)
    IN
    IF read.raised
    THEN Run("body", FALSE, DnsUnused, HttpUnused, <<>>,
             Resp(500, FALSE, MsgUnhandled, <<>>, 0), table)
    ELSE IF IsEmptyStr(url)
    THEN Run("empty", FALSE, DnsUnused, HttpUnused, <<>>,
             Resp(200, FALSE, MsgEmpty, <<>>, 0), table)
    ELSE IF ~allowed
    THEN Run("denied", allowed, dns, HttpUnused, <<>>,
             Resp(200, FALSE, MsgNotAllowed, <<>>, 0), table)
    ELSE IF RobotsBlocks(robots)
    THEN Run("robots", allowed, dns, robots, <<robots_url>>,
             Resp(200, FALSE, MsgRobots, <<>>, 0), table)
    ELSE Run("done", allowed, dns, robots, <<robots_url>>,
             Resp(200, TRUE, MsgAllowed, <<>>, 0), table)

(***************************************************************************)
(* /scrape                                                                 *)
(***************************************************************************)
COOLDOWN == 2
MAX_ITEMS == 50
MAX_TEXTS == 20
MIN_TEXT_LEN == 10
PREVIEW_CHARS == 500

Min(a, b) == IF a < b THEN a ELSE b

\* getattr(app, "_last_request", {}) before the first write
EmptyTable == [c \in {} |-> 0]

\* a plausible slip: `<=` for `<`
RateLimited_inclusive(table, client_ip, now) ==
    client_ip \in DOMAIN table /\ now - table[client_ip] <= COOLDOWN

\* client_ip in last_time and now - last_time[client_ip] < 2
RateLimited(table, client_ip, now) ==
    client_ip \in DOMAIN table /\ now - table[client_ip] < COOLDOWN

\* app._last_request = {client_ip: now}
RecordRequest(table, client_ip, now) == [c \in {client_ip} |-> now]

\* a plausible slip: the timestamp is written before the check raises
TableAfterRateCheck_always(table, client_ip, now) ==
    RecordRequest(table, client_ip, now)

\* the table after lines 94-97
TableAfterRateCheck(table, client_ip, now) ==
    IF RateLimited(table, client_ip, now) THEN table
    ELSE RecordRequest(table, client_ip, now)

\* a node of the parsed page: its tag and the length of its stripped text
Node(tag, len) == [tag |-> tag, len |-> len]
DefaultTags == {"p", "h1", "h2", "h3", "h4", "span", "div", "li"}

\* selectors soupsieve cannot parse
InvalidSelectors == {"p["}

\* soup.select(selector), for selectors that name a tag
select(page, selector) == SelectSeq(page, LAMBDA n : n.tag = selector.text)

\* soup.find_all([...])
find_all(page, tags) == SelectSeq(page, LAMBDA n : n.tag \in tags)

\* for i, el in enumerate(elements[:cap]): if keep(text): results.append(label i+1)
Labelled(elements, cap, label, minLen) ==
    LET cut == SubSeq(elements, 1, Min(Len(elements), cap))
        all == [i \in 1..Len(cut) |->
                   [field |-> <<label, i>>, value |-> cut[i].len]]
    IN SelectSeq(all, LAMBDA e : e.value > minLen)

\* a plausible slip: the matches are not cut to the first 50
ExtractSelected_uncut(elements) == Labelled(elements, Len(elements), "Item", 0)

ExtractSelected(elements) == Labelled(elements, MAX_ITEMS, "Item", 0)
ExtractDefault(elements) == Labelled(elements, MAX_TEXTS, "Text", MIN_TEXT_LEN)

\* response.raise_for_status() raises HTTPError
RaisesForStatus(status) == status >= 400 /\ status < 600

DetailRequired == "URL is required"
DetailNotAllowed == "URL not allowed (private/local)"
DetailRateLimit == "Rate limit: wait 2 seconds between requests"
DetailTimeout == "Timeout fetching page"
DetailFetch == "Fetch error"
DetailSelector == "Invalid CSS selector"
DetailNone == ""

Fail(status, detail) == Resp(status, FALSE, detail, <<>>, 0)

\* a plausible slip: the rate check is made after the page is fetched
scrape_gate_late(url, allowed, limited) ==
    IF IsEmptyStr(url) THEN "empty"
    ELSE IF ~allowed THEN "denied"
    ELSE "pass"

\* lines 85-96: which check of /scrape rejects the request, if any
scrape_gate(url, allowed, limited) ==
    IF IsEmptyStr(url) THEN "empty"
    ELSE IF ~allowed THEN "denied"
    ELSE IF limited THEN "limited"
    ELSE "pass"

\* a plausible slip: the timestamp is written before the URL is checked
TableAfterGate_early(gate, table, client_ip, now) ==
    IF gate = "limited" THEN table ELSE RecordRequest(table, client_ip, now)

\* the table after lines 85-97: lines 86 and 89 raise before line 94 reads it
TableAfterGate(gate, table, client_ip, now) ==
    IF gate \in {"empty", "denied"} THEN table
    ELSE TableAfterRateCheck(table, client_ip, now)

\* lines 81-141; allowed is what is_allowed_url(url) returns when line 88 calls
\* it, dns the outcome of its lookup (DnsUnused if it makes none)
scrape_run(body, allowed, client_ip, now, dns, get, table) ==
    LET readUrl == ReadField(body, body.url, EmptyStr)
        readSel == ReadField(body, body.selector, EmptySel)
        url == readUrl.value
        selector == readSel.value
        gate == scrape_gate(url, allowed, RateLimited(table, client_ip, now))
        written == TableAfterGate(gate, table, client_ip, now)
        page_get == Get("page", url, url.path)
        elements == IF selector.text # "" THEN select(get.page, selector)
                    ELSE find_all(get.page, DefaultTags)
        results == IF selector.text # "" THEN ExtractSelected(elements)
                   ELSE ExtractDefault(elements)
    IN
    IF readUrl.raised \/ readSel.raised
    THEN Run("body", FALSE, DnsUnused, HttpUnused, <<>>, Fail(500, MsgUnhandled), table)
    ELSE IF gate = "empty"
    THEN Run("empty", FALSE, DnsUnused, HttpUnused, <<>>, Fail(400, DetailRequired),
             written)
    ELSE IF gate = "denied"
    THEN Run("denied", allowed, dns, HttpUnused, <<>>,
             Fail(400, DetailNotAllowed), written)
    ELSE IF gate = "limited"
    THEN Run("limited", allowed, dns, HttpUnused, <<>>, Fail(429, DetailRateLimit),
             written)
    ELSE IF get.kind = "timeout"
    THEN Run("fetch", allowed, dns, get, <<page_get>>, Fail(408, DetailTimeout),
             written)
    ELSE IF get.kind = "error" \/ RaisesForStatus(get.status)
    THEN Run("fetch", allowed, dns, get, <<page_get>>, Fail(400, DetailFetch), written)
    ELSE IF selector.text \in InvalidSelectors
    THEN Run("selector", allowed, dns, get, <<page_get>>, Fail(400, DetailSelector),
             written)
    ELSE Run("done", allowed, dns, get, <<page_get>>,
             Resp(200, FALSE, DetailNone, results,
                  Min(get.size, PREVIEW_CHARS) + 3),
             written)

(***************************************************************************)
(* The server: handlers of concurrent requests on one event loop.  A       *)
(* handler is suspended once, at `await request.json()`; the statements    *)
(* after it hold no await and run as one step.                             *)
(***************************************************************************)
MaxReqs == 2
MaxTime == 2

Slots == 1..MaxReqs
Clients == {"10.1.1.1", "10.2.2.2"}
Never == 0 - 1

u_blank == Url(TRUE, <<>>, <<>>, <<>>, FALSE)
u_ftp == Url(FALSE, s_ftp, h_short, <<>>, FALSE)
u_local == Url(FALSE, s_http, h_LOCALHOST, p_root, FALSE)
u_site == Url(TRUE, s_http, h_short, <<>>, FALSE)
u_siteDir == Url(FALSE, s_HTTP, h_Example, p_dir, FALSE)
u_bad == Url(FALSE, s_http, <<"[">>, <<>>, TRUE)

NoField == Field(FALSE, FALSE, EmptyStr)
NoSelector == Field(FALSE, FALSE, EmptySel)
UrlField(u) == Field(TRUE, TRUE, u)
SelField(pad, text) == Field(TRUE, TRUE, Sel(pad, text))

ip_private == <<10, 0, 0, 5>>
ip_public == <<93, 184, 216, 34>>
ServerDns == { DnsFail("nxdomain"), DnsOk(ip_public) }

page_list == <<Node("li", 0), Node("p", 40), Node("li", 4), Node("li", 11)>>
page_none == <<Node("a", 30)>>

\* the requests and outcomes the server is run on: one per way a handler ends
ServerBodies ==
    { Body("notjson", NoField, NoSelector),
      Body("object", NoField, NoSelector),
      Body("object", UrlField(u_ftp), NoSelector),
      Body("object", UrlField(u_site), NoSelector),
      Body("object", UrlField(u_site), SelField(TRUE, "p[")) }
ServerRobots ==
    { HttpTimeout,
      Http("response", 200, t_ua \o t_nl \o t_dis, <<>>, 0) }
ServerPages ==
    { HttpTimeout, Http("response", 404, <<>>, page_none, 30),
      Http("response", 200, <<>>, page_list, 620) }

IdleSlot == [kind |-> "idle", client |-> ""]

\* what is kept of a handler's run: where it ended, its response status and
\* message, the outbound requests it issued, whether is_allowed_url returned
\* True, and how many entries it returned
Summary(kind, run) ==
    [kind |-> kind, stage |-> run.stage, status |-> run.resp.status,
     msg |-> run.resp.msg, http |-> run.http, allowed |-> run.allowed,
     count |-> Len(run.resp.data)]

NoRun == Run("none", FALSE, DnsUnused, HttpUnused, <<>>, Fail(0, DetailNone), EmptyTable)
NoLast == Summary("none", NoRun)
AdmIdle == [url |-> EmptyStr, dns |-> DnsUnused, classified |-> FALSE,
            private |-> FALSE, applied |-> FALSE, result |-> FALSE]
ChkIdle == [body |-> Body("none", NoField, NoSelector), dns |-> DnsUnused,
            robots |-> HttpUnused, done |-> FALSE, run |-> NoRun]
ScrIdle == [body |-> Body("none", NoField, NoSelector), dns |-> DnsUnused,
            robots |-> HttpUnused, get |-> HttpUnused, table |-> EmptyTable,
            scraped |-> FALSE, run |-> NoRun, probed |-> FALSE, probe |-> NoRun]
AttIdle == [table |-> EmptyTable, now |-> 0, count |-> 0, client |-> "", at |-> 0,
            retry |-> FALSE, stage |-> "none", status |-> 0, msg |-> DetailNone,
            prevStatus |-> 0, prevMsg |-> DetailNone,
            admitted |-> [c \in Clients |-> Never],
            failed |-> [c \in Clients |-> FALSE]]

Init ==
    /\ clock = 0
    /\ last_request = EmptyTable
    /\ pending = [r \in Slots |-> IdleSlot]
    /\ last = NoLast
    /\ lastAdmit = [c \in Clients |-> Never]
    /\ admitPeers = [c \in Clients |-> {}]
    /\ adm = AdmIdle
    /\ chk = ChkIdle
    /\ scr = ScrIdle
    /\ att = AttIdle

\* a request arrives and its handler runs up to `await request.json()`
\* (/check-url never reads request.client, so its handler carries none)
Receive(r, kind, c) ==
    /\ pending[r].kind = "idle"
    /\ pending' = [pending EXCEPT ![r] = [kind |-> kind, client |-> c]]
    /\ UNCHANGED <<clock, last_request, last, lastAdmit, admitPeers, adm, chk,
                   scr, att>>

\* time passes
Tick ==
    /\ clock < MaxTime
    /\ clock' = clock + 1
    /\ UNCHANGED <<last_request, pending, last, lastAdmit, admitPeers, adm, chk,
                   scr, att>>

InFlight == { r \in Slots : pending[r].kind # "idle" }

\* the url the handler reads from the body (the empty string if that raises)
UrlOf(body) == ReadField(body, body.url, EmptyStr).value

\* the outcomes socket.gethostbyname can have, if is_allowed_url calls it
DnsChoices(url, outcomes) == IF ReachesDns(url) THEN outcomes ELSE {DnsUnused}

\* the outcomes requests.get can have, if admission lets the handler go on
HttpChoices(allowed, outcomes) == IF allowed THEN outcomes ELSE {HttpUnused}

\* the requests the server is run on, each with an outcome of the lookup
\* is_allowed_url makes for it and with what is_allowed_url then returns
ServerRequests ==
    UNION { { [body |-> body, dns |-> dns,
               allowed |-> is_allowed_url(UrlOf(body), dns)] :
                dns \in DnsChoices(UrlOf(body), ServerDns) } :
            body \in ServerBodies }

\* POST /check-url, from the await to the response
check_url(r) ==
    /\ pending[r].kind = "check"
    /\ \E req \in { q \in ServerRequests : q.body.selector = NoSelector } :
       \E robots \in HttpChoices(req.allowed, ServerRobots) :
       \E run \in { check_url_run(req.body, req.allowed, req.dns, robots, last_request) } :
         /\ last' = Summary("check", run)
         /\ last_request' = run.table
    /\ pending' = [pending EXCEPT ![r] = IdleSlot]
    /\ admitPeers' = [c \in Clients |-> admitPeers[c] \ {r}]
    /\ UNCHANGED <<clock, lastAdmit, adm, chk, scr, att>>

\* the request passed the rate check of /scrape
Admitted(stage) == stage \in {"fetch", "selector", "done"}

\* POST /scrape, from the await to the response
scrape(r) ==
    /\ pending[r].kind = "scrape"
    /\ \E req \in ServerRequests :
       \E get \in HttpChoices(req.allowed, ServerPages) :
       \E me \in { pending[r].client } :
       \E run \in { scrape_run(req.body, req.allowed, me, clock, req.dns, get,
                                last_request) } :
         /\ last' = Summary("scrape", run)
         /\ last_request' = run.table
         /\ lastAdmit' = IF Admitted(run.stage) THEN [lastAdmit EXCEPT ![me] = clock]
                         ELSE lastAdmit
         /\ admitPeers' = [c \in Clients |->
                             IF c = me /\ Admitted(run.stage)
                             THEN { q \in InFlight \ {r} :
                                      pending[q] = pending[r] }
                             ELSE admitPeers[c] \ {r}]
    /\ pending' = [pending EXCEPT ![r] = IdleSlot]
    /\ UNCHANGED <<clock, adm, chk, scr, att>>

Next ==
    \/ \E r \in Slots : Receive(r, "check", "")
    \/ \E r \in Slots, c \in Clients : Receive(r, "scrape", c)
    \/ Tick
    \/ \E r \in Slots : check_url(r)
    \/ \E r \in Slots : scrape(r)

Spec == Init /\ [][Next]_vars

(***************************************************************************)
(* is_private_ip and is_allowed_url on their own: every URL and every      *)
(* lookup outcome of the sets below is an initial state, and the two       *)
(* functions are applied to it.                                            *)
(***************************************************************************)
AdmSchemes == { s_http, s_https, s_HTTP, s_ftp, s_file, s_empty }
AdmHosts ==
    { <<>>, h_localhost, h_LOCALHOST, h_loopback, h_v6loopback, h_any,
      h_example, h_Example, h_localhostDot }
AdmUrls ==
    { Url(FALSE, s, h, <<>>, m) : s \in AdmSchemes, h \in AdmHosts, m \in BOOLEAN }

\* addresses on and next to the edges of the reserved blocks
FirstOctets == {0, 9, 10, 11, 93, 126, 127, 128, 169, 172, 192, 198, 203, 223,
                224, 239, 240, 255}
SecondOctets == {0, 15, 16, 17, 18, 19, 20, 31, 32, 51, 167, 168, 169, 184, 253,
                 254, 255}
ThirdOctets == {0, 2, 100, 113, 216, 255}
FourthOctets == {0, 5, 8, 34, 170, 172, 255}
AdmAddresses ==
    { <<a, b, c, d>> :
        a \in FirstOctets, b \in SecondOctets, c \in ThirdOctets, d \in FourthOctets }

\* strings ip_address() rejects: a number over 255, three numbers, five numbers
AdmNotAddresses == { <<93, 184, 216, 256>>, <<93, 184, 216>>, <<93, 184, 216, 34, 1>> }

AdmInput(u, dns) ==
    [url |-> u, dns |-> dns, classified |-> FALSE, private |-> FALSE,
     applied |-> FALSE, result |-> FALSE]

ServerIdle ==
    /\ clock = 0
    /\ last_request = EmptyTable
    /\ pending = [r \in Slots |-> IdleSlot]
    /\ last = NoLast
    /\ lastAdmit = [c \in Clients |-> Never]
    /\ admitPeers = [c \in Clients |-> {}]

InitAdmission ==
    /\ ServerIdle
    /\ chk = ChkIdle
    /\ scr = ScrIdle
    /\ att = AttIdle
    /\ \/ \E u \in AdmUrls, dns \in DnsFailures \cup {DnsOk(ip_private), DnsOk(ip_public)} :
            adm = AdmInput(u, dns)
       \/ \E u \in {Url(FALSE, s_http, h_example, <<>>, FALSE),
                    Url(FALSE, s_ftp, h_example, <<>>, FALSE)},
             ip \in AdmAddresses \cup AdmNotAddresses :
            adm = AdmInput(u, DnsOk(ip))

\* is_private_ip(ip) on the address the lookup returned
Classify ==
    /\ adm.dns.ok /\ ~adm.classified
    /\ adm' = [adm EXCEPT !.classified = TRUE, !.private = is_private_ip(adm.dns.ip)]
    /\ UNCHANGED <<serverVars, chk, scr, att>>

\* is_allowed_url(url), the lookup ending as adm.dns says
Admit ==
    /\ ~adm.applied
    /\ adm' = [adm EXCEPT !.applied = TRUE, !.result = is_allowed_url(adm.url, adm.dns)]
    /\ UNCHANGED <<serverVars, chk, scr, att>>

NextAdmission == Classify \/ Admit

SpecAdmission == InitAdmission /\ [][NextAdmission]_vars

(***************************************************************************)
(* check_url on its own: it reads and writes no shared state, so one       *)
(* request from each body, lookup outcome and robots.txt outcome is run.   *)
(***************************************************************************)
u_https == Url(FALSE, s_https, h_example, p_root, FALSE)
u_file == Url(FALSE, s_file, <<>>, p_dir, FALSE)
u_path == Url(FALSE, <<>>, <<>>, h_example, FALSE)

CheckBodies ==
    { Body("notjson", NoField, NoSelector),
      Body("array", NoField, NoSelector),
      Body("object", Field(TRUE, FALSE, EmptyStr), NoSelector),
      Body("object", NoField, NoSelector) } \cup
    { Body("object", UrlField(u), NoSelector) :
        u \in {EmptyStr, u_blank, u_ftp, u_file, u_path, u_local, u_bad, u_site,
               u_siteDir, u_https} }

RobotsTexts ==
    { <<>>, t_ua, t_dis,
      t_ua \o t_nl \o t_dis,
      t_dis \o t_nl \o t_ua,
      t_ua \o t_nl \o t_disTmp,
      t_ua \o t_nl \o t_disNone,
      t_uaBot \o t_nl \o t_dis,
      t_uaLower \o t_nl \o t_dis }
RobotsOutcomes ==
    { HttpTimeout, HttpError }
    \cup { Http("response", st, t, <<>>, 0) :
             st \in {200, 204, 404, 503}, t \in RobotsTexts }

InitCheckUrl ==
    /\ ServerIdle
    /\ adm = AdmIdle
    /\ scr = ScrIdle
    /\ att = AttIdle
    /\ \E body \in CheckBodies :
       \E dns \in DnsChoices(UrlOf(body),
                              ServerDns \cup DnsFailures \cup {DnsOk(ip_private)}) :
       \E robots \in HttpChoices(is_allowed_url(UrlOf(body), dns), RobotsOutcomes) :
         chk = [body |-> body, dns |-> dns, robots |-> robots, done |-> FALSE,
                run |-> NoRun]

\* POST /check-url with the body, lookup outcome and robots.txt outcome of chk
CheckOne ==
    /\ ~chk.done
    /\ chk' = [chk EXCEPT
                 !.done = TRUE,
                 !.run = check_url_run(chk.body,
                                       is_allowed_url(UrlOf(chk.body), chk.dns),
                                       chk.dns, chk.robots, EmptyTable)]
    /\ UNCHANGED <<serverVars, adm, scr, att>>

NextCheckUrl == CheckOne

SpecCheckUrl == InitCheckUrl /\ [][NextCheckUrl]_vars

(***************************************************************************)
(* scrape on its own, one request: the body, the lookup outcome, the       *)
(* outcome of the page GET, the table and the time it runs at are an       *)
(* initial state.  check_url is applied to the same URL, with the site's   *)
(* robots.txt outcome, so that the two handlers can be compared.           *)
(***************************************************************************)
MaxOver == 10

\* a page of one <a> and n <li> elements; the i-th <li> has a text of
\* MIN_TEXT_LEN + i characters, or of holeLen characters if i is in holes
PageOf(n, holes, holeLen) ==
    <<Node("a", 30)>> \o
    [i \in 1..n |-> Node("li", IF i \in holes THEN holeLen ELSE MIN_TEXT_LEN + i)]

PageSizes ==
    {0, 1, MAX_TEXTS, MAX_TEXTS + MaxOver, MAX_ITEMS, MAX_ITEMS + MaxOver}
HolePositions == {1, MAX_TEXTS, MAX_TEXTS + 1, MAX_ITEMS}
ScrapePages ==
    { PageOf(n, holes, holeLen) :
        n \in PageSizes, holes \in SUBSET HolePositions, holeLen \in {0, 5} }

ScrapeBodies ==
    { Body("notjson", NoField, NoSelector),
      Body("object", NoField, NoSelector),
      Body("object", UrlField(u_ftp), NoSelector),
      Body("object", UrlField(u_site), Field(TRUE, FALSE, EmptySel)),
      Body("object", UrlField(u_site), NoSelector),
      Body("object", UrlField(u_site), SelField(TRUE, "")),
      Body("object", UrlField(u_site), SelField(TRUE, "li")),
      Body("object", UrlField(u_site), SelField(FALSE, "p[")) }

ScrapeOutcomes ==
    { HttpTimeout, HttpError }
    \cup { Http("response", st, <<>>, page_none, 30) :
             st \in {204, 399, 400, 404, 503, 599} }
    \cup { Http("response", 200, <<>>, page, 620) : page \in ScrapePages }

ScrapeTables == { EmptyTable, RecordRequest(EmptyTable, "10.1.1.1", 0) }

InitScrape ==
    /\ ServerIdle
    /\ adm = AdmIdle
    /\ chk = ChkIdle
    /\ att = AttIdle
    /\ \E body \in ScrapeBodies :
       \E dns \in DnsChoices(UrlOf(body), ServerDns) :
       \E allowed \in { is_allowed_url(UrlOf(body), dns) } :
       \E get \in HttpChoices(allowed, ScrapeOutcomes) :
       \E robots \in HttpChoices(allowed, ServerRobots) :
       \E table \in ScrapeTables :
         scr = [body |-> body, dns |-> dns, robots |-> robots, get |-> get,
                table |-> table, scraped |-> FALSE, run |-> NoRun,
                probed |-> FALSE, probe |-> NoRun]

\* POST /scrape from client 10.1.1.1 at time 1, with the inputs of scr
ScrapeOne ==
    /\ ~scr.scraped
    /\ scr' = [scr EXCEPT
                 !.scraped = TRUE,
                 !.run = scrape_run(scr.body,
                                    is_allowed_url(UrlOf(scr.body), scr.dns),
                                    "10.1.1.1", 1, scr.dns, scr.get, scr.table)]
    /\ UNCHANGED <<serverVars, adm, chk, att>>

\* POST /check-url with the same URL
ProbeOne ==
    /\ ~scr.probed
    /\ scr' = [scr EXCEPT
                 !.probed = TRUE,
                 !.probe = check_url_run(scr.body,
                                         is_allowed_url(UrlOf(scr.body), scr.dns),
                                         scr.dns, scr.robots, scr.table)]
    /\ UNCHANGED <<serverVars, adm, chk, att>>

NextScrape == ScrapeOne \/ ProbeOne

SpecScrape == InitScrape /\ [][NextScrape]_vars

(***************************************************************************)
(* scrape applied to one request after another.  The statements after the  *)
(* await run as one step, so the runs of concurrent handlers are a         *)
(* sequence; att keeps the table and, per client, when its latest admitted *)
(* request ran and whether that request failed.                            *)
(***************************************************************************)
MaxAttempts == 3

InitRetry ==
    /\ ServerIdle
    /\ adm = AdmIdle
    /\ chk = ChkIdle
    /\ scr = ScrIdle
    /\ att = AttIdle

\* POST /scrape from client c at time att.now
Attempt(c) ==
    /\ att.count < MaxAttempts
    /\ \E req \in ServerRequests :
       \E get \in HttpChoices(req.allowed, ServerPages) :
       \E run \in { scrape_run(req.body, req.allowed, c, att.now, req.dns, get,
                               att.table) } :
         att' = [table |-> run.table,
                 now |-> att.now,
                 count |-> att.count + 1,
                 client |-> c,
                 at |-> att.now,
                 retry |-> att.failed[c] /\ att.now - att.admitted[c] < 2,
                 stage |-> run.stage,
                 status |-> run.resp.status,
                 msg |-> run.resp.msg,
                 prevStatus |-> att.status,
                 prevMsg |-> att.msg,
                 admitted |-> IF Admitted(run.stage)
                              THEN [att.admitted EXCEPT ![c] = att.now]
                              ELSE att.admitted,
                 failed |-> IF Admitted(run.stage)
                            THEN [att.failed EXCEPT ![c] = (run.stage # "done")]
                            ELSE att.failed]
    /\ UNCHANGED <<serverVars, adm, chk, scr>>

\* time passes between two requests
Wait ==
    /\ att.now < MaxTime
    /\ att' = [att EXCEPT !.now = @ + 1]
    /\ UNCHANGED <<serverVars, adm, chk, scr>>

NextRetry == (\E c \in Clients : Attempt(c)) \/ Wait

SpecRetry == InitRetry /\ [][NextRetry]_vars

(***************************************************************************)
(* Properties                                                              *)
(***************************************************************************)
\* the step is the run of the /scrape handler suspended in slot r
ScrapeStep(r) == pending[r].kind = "scrape" /\ pending'[r].kind = "idle"

\* the run of /scrape that ended last got past is_allowed_url
PassedAdmission(l) == l.kind = "scrape" /\ l.stage \in {"limited", "fetch", "selector", "done"}

\* C1: /scrape issues the GET of the page only if is_allowed_url returned True
\* for this request and the rate-limit check, made on the table and the time
\* the handler ran at, let the client through; a request rejected with
\* "URL is required", "URL not allowed" or the 429 error issued no GET.
Thm_C1_FetchOnlyAfterChecks ==
    /\ [][\A r \in Slots :
            (ScrapeStep(r) /\ last'.http # <<>>) =>
                /\ last'.allowed
                /\ ~(/\ pending[r].client \in DOMAIN last_request
                     /\ clock - last_request[pending[r].client] < 2)]_vars
    /\ [](last.kind = "scrape"
             /\ last.msg \in {DetailRequired, DetailNotAllowed, DetailRateLimit}
          => last.http = <<>>)

Wit_C1_PageFetched ==
    /\ last.kind = "scrape" /\ last.allowed
    /\ Len(last.http) = 1 /\ last.http[1].what = "page"
    /\ last_request # EmptyTable

\* what C2 says is_allowed_url decides on
ClaimedAllowed(u, dns) ==
    /\ ~u.malformed
    /\ Lower(u.scheme) \in {s_http, s_https}
    /\ u.host # <<>>
    /\ Lower(u.host) \notin {h_localhost, h_loopback, h_v6loopback, h_any}
    /\ dns.ok
    /\ ~is_private_ip(dns.ip)

\* C2: is_allowed_url returns True exactly when the scheme is http or https,
\* the hostname is not empty and, lower-cased, none of localhost, 127.0.0.1,
\* ::1, 0.0.0.0, the lookup succeeds and the address is public; any other
\* scheme is denied whatever the lookup gives, 10.0.0.5 is denied and
\* 93.184.216.34 is allowed.
Thm_C2_AllowedIff ==
    adm.applied =>
        /\ adm.result <=> ClaimedAllowed(adm.url, adm.dns)
        /\ Lower(adm.url.scheme) \notin {s_http, s_https} => ~adm.result
        /\ adm.dns = DnsOk(ip_private) => ~adm.result
        /\ (adm.dns = DnsOk(ip_public) /\ adm.url.host \in {h_example, h_Example}
              /\ adm.url.scheme \in {s_http, s_https, s_HTTP} /\ ~adm.url.malformed)
           => adm.result

Wit_C2_PublicAllowed ==
    /\ adm.applied /\ adm.result
    /\ adm.dns = DnsOk(ip_public) /\ adm.url.scheme = s_HTTP /\ adm.url.host = h_Example

\* C3: when urlparse raises or the lookup raises (timeout, NXDOMAIN, malformed
\* name), is_allowed_url returns False: it returns a boolean on every input
\* and no raising input gives True.
Thm_C3_FailClosed ==
    adm.applied =>
        /\ adm.result \in BOOLEAN
        /\ (adm.url.malformed \/ ~adm.dns.ok) => adm.result = FALSE

Wit_C3_LookupRaised ==
    /\ adm.applied /\ ~adm.result
    /\ ReachesDns(adm.url) /\ adm.dns = DnsFail("timeout")

\* the ranges C4 names, by their numbers: RFC1918, link-local, loopback, reserved
ClaimedRange(ip) ==
    \/ ip[1] = 10
    \/ ip[1] = 172 /\ ip[2] \in 16..31
    \/ ip[1] = 192 /\ ip[2] = 168
    \/ ip[1] = 169 /\ ip[2] = 254
    \/ ip[1] = 127
    \/ ip[1] \in 240..255

\* C4: for every IPv4 address in an RFC1918, link-local, loopback or reserved
\* range, is_private_ip is True and a hostname resolving to it is denied.
Thm_C4_PrivateNeverPublic ==
    (adm.dns.ok /\ ClaimedRange(adm.dns.ip)) =>
        /\ adm.classified => adm.private
        /\ adm.applied => ~adm.result

Wit_C4_LinkLocalDenied ==
    /\ adm.classified /\ adm.private /\ adm.applied /\ ~adm.result
    /\ ReachesDns(adm.url)
    /\ adm.dns.ok /\ adm.dns.ip[1] = 169 /\ adm.dns.ip[2] = 254

\* C5: a /scrape request of client c that passed admission at time t is
\* rejected as rate limited exactly when c's latest admitted request was at
\* some t0 with t - t0 < 2, whatever other clients requested in between.
Cex_C5_PerClientCooldown ==
    [][\A r \in Slots :
         (ScrapeStep(r) /\ PassedAdmission(last')) =>
            (last'.stage = "limited" <=>
                /\ lastAdmit[pending[r].client] # Never
                /\ clock - lastAdmit[pending[r].client] < 2)]_vars

\* C6: of the /scrape requests of one client that are in flight together and
\* run inside one cooldown window, at most one passes the rate check.
Cex_C6_OneAdmittedPerWindow ==
    [][\A r \in Slots :
         (/\ ScrapeStep(r)
          /\ r \in admitPeers[pending[r].client]
          /\ clock - lastAdmit[pending[r].client] < 2
          /\ PassedAdmission(last'))
         => last'.stage = "limited"]_vars

\* C7: a /scrape request rejected as rate limited leaves the table as it was,
\* so the client's entry stays that of its latest admitted request, and a
\* request of the client 2 seconds or more after that one is not rate limited.
Thm_C7_RejectionWritesNothing ==
    [][\A r \in Slots :
         ScrapeStep(r) =>
            /\ last'.stage = "limited" => last_request' = last_request
            /\ (/\ PassedAdmission(last')
                /\ lastAdmit[pending[r].client] # Never
                /\ clock - lastAdmit[pending[r].client] >= 2)
               => last'.stage # "limited"]_vars

Wit_C7_RejectedThenAdmitted ==
    /\ last.kind = "scrape" /\ last.stage = "limited"
    /\ \E c \in DOMAIN last_request : clock - last_request[c] = 1

\* C8: a client that has been admitted has an entry in the table in every
\* later state: the key set of the table never shrinks.
Cex_C8_KeysNeverShrink ==
    \A c \in Clients : lastAdmit[c] # Never => c \in DOMAIN last_request

\* C9: POST /check-url answers every request body with a normal response
\* {allowed, message}; a denial carries one of three distinct messages.
Cex_C9_NeverProtocolError ==
    chk.done =>
        /\ chk.run.resp.status = 200
        /\ ~chk.run.resp.allowed =>
              chk.run.resp.msg \in {MsgEmpty, MsgNotAllowed, MsgRobots}

\* the robots.txt bodies that hold both "User-agent: *" and "Disallow: /"
TextsWithBoth ==
    { t_ua \o t_nl \o t_dis, t_dis \o t_nl \o t_ua, t_ua \o t_nl \o t_disTmp }

\* C10: for a URL that passed admission, /check-url answers "blocked by
\* robots.txt" exactly when the probe returned status 200 with a body holding
\* both substrings; when the probe raises, times out or returns another
\* status, it answers allowed.
Thm_C10_ProbeFailsOpen ==
    (chk.done /\ chk.run.allowed) =>
        /\ chk.run.resp.status = 200
        /\ (~chk.run.resp.allowed /\ chk.run.resp.msg = MsgRobots)
              <=> (/\ chk.robots.kind = "response"
                   /\ chk.robots.status = 200
                   /\ chk.robots.text \in TextsWithBoth)
        /\ (chk.robots.kind # "response" \/ chk.robots.status # 200)
              => (chk.run.resp.allowed /\ chk.run.resp.msg = MsgAllowed)

Wit_C10_ProbeTimedOut ==
    /\ chk.done /\ chk.run.allowed
    /\ chk.robots = HttpTimeout
    /\ chk.run.resp.allowed
    /\ Len(chk.run.http) = 1

\* the selector the request carries, stripped, is not empty
SelectorGiven ==
    /\ scr.body.selector.given /\ scr.body.selector.isstr
    /\ scr.body.selector.str.text # ""

\* /scrape fetched the page and returned a result
Extracted == scr.scraped /\ scr.run.resp.status = 200

\* the nodes of the fetched page the selector "li" matches, in document order
LiMatches == SelectSeq(scr.get.page, LAMBDA n : n.tag = "li")

\* the text lengths of the returned entries, in the order returned
ReturnedValues == [k \in 1..Len(scr.run.resp.data) |-> scr.run.resp.data[k].value]

\* C11 as stated: with a selector matching more than 50 nodes, the result has
\* exactly 50 entries, labeled "Item 1" to "Item 50", the k-th being the k-th
\* match.
Cex_C11_FiftyItems ==
    (Extracted /\ SelectorGiven /\ Len(LiMatches) > 50) =>
        /\ Len(scr.run.resp.data) = 50
        /\ \A k \in 1..50 :
              /\ scr.run.resp.data[k].field = <<"Item", k>>
              /\ scr.run.resp.data[k].value = LiMatches[k].len

\* C11: with a selector matching more than 50 nodes, the result has at most
\* 50 entries, which are the matches among the first 50 whose trimmed text is
\* not empty, in document order; when none of the first 50 is empty they are
\* exactly 50, labeled "Item 1" to "Item 50".
Thm_C11_AtMostFiftyItems ==
    (Extracted /\ SelectorGiven /\ Len(LiMatches) > 50) =>
        LET first == SubSeq(LiMatches, 1, 50)
            kept == SelectSeq(first, LAMBDA n : n.len > 0)
        IN /\ Len(scr.run.resp.data) <= 50
           /\ ReturnedValues = [k \in 1..Len(kept) |-> kept[k].len]
           /\ (\A i \in 1..50 : first[i].len > 0) =>
                 /\ Len(scr.run.resp.data) = 50
                 /\ \A k \in 1..50 : scr.run.resp.data[k].field = <<"Item", k>>

Wit_C11_SixtyMatches ==
    /\ Extracted /\ SelectorGiven
    /\ Len(LiMatches) = 60
    /\ Len(scr.run.resp.data) = 50
    /\ scr.run.resp.data[50].field = <<"Item", 50>>

\* the default-tag elements of the fetched page whose text is longer than 10
Qualifying ==
    SelectSeq(scr.get.page,
              LAMBDA n : /\ n.tag \in {"p", "h1", "h2", "h3", "h4", "span", "div", "li"}
                         /\ n.len > 10)

\* C12: with an empty selector and a page of more than 20 qualifying
\* default-tag elements, the result has exactly 20 entries, wherever the
\* other default-tag elements lie.
Cex_C12_TwentyTexts ==
    (Extracted /\ ~SelectorGiven /\ Len(Qualifying) > 20) =>
        Len(scr.run.resp.data) = 20

\* the category C13 puts a failure in, by the error detail the caller gets
Category(msg) ==
    IF msg \in {DetailRequired, DetailNotAllowed, DetailSelector} THEN "bad-request"
    ELSE IF msg = DetailRateLimit THEN "rate-limited"
    ELSE IF msg = DetailTimeout THEN "timeout"
    ELSE IF msg = DetailFetch THEN "upstream-fetch-error"
    ELSE "none"

\* C13: every failure of /scrape falls in one of the four categories, and
\* two failures of different categories carry different statuses.
Cex_C13_FourStatuses ==
    /\ (att.count > 0 /\ att.status # 200) => Category(att.msg) # "none"
    /\ (/\ att.count > 1 /\ att.status # 200 /\ att.prevStatus # 200
        /\ Category(att.msg) # Category(att.prevMsg))
       => att.status # att.prevStatus

\* C14: a /scrape request rejected for an empty URL or by admission leaves
\* the table as it was, so the rate check of any client at any later time
\* decides as it would have without the request.
Thm_C14_EarlyRejectionWritesNothing ==
    [][\A r \in Slots :
         (ScrapeStep(r) /\ last'.msg \in {DetailRequired, DetailNotAllowed}) =>
            /\ last_request' = last_request
            /\ \A c \in Clients, t \in clock..(MaxTime + 2) :
                  (c \in DOMAIN last_request' /\ t - last_request'[c] < 2)
                     <=> (c \in DOMAIN last_request /\ t - last_request[c] < 2)]_vars

Wit_C14_DeniedInsideCooldown ==
    /\ last.kind = "scrape" /\ last.msg = DetailNotAllowed
    /\ \E c \in DOMAIN last_request : clock - last_request[c] < 2

\* C15: a request that passed admission and the rate check has written its
\* client's timestamp, also when the GET or the selector failed, and a retry
\* of the client less than 2 seconds after such a failed attempt is rate
\* limited.
Cex_C15_FailedAttemptCounts ==
    att.count > 0 =>
        /\ att.msg \in {DetailTimeout, DetailFetch, DetailSelector} =>
              (att.client \in DOMAIN att.table /\ att.table[att.client] = att.at)
        /\ (att.retry /\ att.msg \notin {DetailRequired, DetailNotAllowed, MsgUnhandled})
              => att.msg = DetailRateLimit

\* four numbers, each in 0..255
NumericAddress(ip) == Len(ip) = 4 /\ \A i \in 1..Len(ip) : ip[i] >= 0 /\ ip[i] <= 255

Cex_C17_ConsecutiveLabels ==
    Extracted =>
        \A k \in 1..Len(scr.run.resp.data) :
            scr.run.resp.data[k].field =
                <<IF SelectorGiven THEN "Item" ELSE "Text", k>>

\* C18: a URL for which /check-url answers "blocked by robots.txt" is not
\* fetched by /scrape.
Cex_C18_RobotsHonoured ==
    (/\ scr.probed /\ scr.scraped
     /\ ~scr.probe.resp.allowed /\ scr.probe.resp.msg = MsgRobots)
    => scr.run.http = <<>>

\* C19: /check-url issues the robots.txt request only for a URL
\* is_allowed_url allowed; for an empty URL or one admission denies (scheme,
\* denylisted host, failed lookup, private address) it issues no request.
Thm_C19_ProbeOnlyWhenAllowed ==
    chk.done =>
        /\ chk.run.http # <<>> =>
              /\ chk.run.allowed
              /\ chk.body.url.given /\ chk.body.url.isstr
              /\ ClaimedAllowed(chk.body.url.str, chk.dns)
        /\ chk.run.resp.msg \in {MsgEmpty, MsgNotAllowed} => chk.run.http = <<>>
        /\ Len(chk.run.http) <= 1

Wit_C19_DeniedWithoutProbe ==
    /\ chk.done /\ chk.run.resp.msg = MsgNotAllowed
    /\ chk.dns = DnsOk(ip_private)
    /\ chk.run.http = <<>>

====
